---- MODULE Spec2Model ----
(***************************************************************************)
(* Model of the benchmark bash I/O interceptors of mini-swe-agent:         *)
(*   - the rule engine (_apply_rules, both modules),                       *)
(*   - the action-layer aspect around DefaultAgent.execute_actions         *)
(*     (agents/benchmark_aspect.py),                                       *)
(*   - the environment-layer aspect around Environment.execute             *)
(*     (agents/benchmark_env_aspect.py).                                   *)
(* A text is a sequence of one-character strings.                          *)
(***************************************************************************)
EXTENDS Naturals, Sequences, FiniteSets, TLC

\* ------------------------------------------------------------------ bounds
MaxLen == 2
MaxRules == 2
MaxActions == 2

\* ---------------------------------------------------------------- alphabet
Chars == {"a", "b", "c"}

SeqsUpTo(S, n) == UNION {[1..k -> S] : k \in 0..n}

\* ------------------------------------------------- outcomes of a Python call
\* A call either returns a value or raises; exc = "none" means it returned.
Ok(v) == [exc |-> "none", val |-> v]

Raise(e) == [exc |-> e, val |-> <<>>]

\* ------------------------------------------------------------- rule engine
\* rule.get("regex", True): a rule that does not set regex is a regex rule.
RuleIsRegex(rule) == rule.regex # "false"

\* re.compile of the pattern; over this alphabet the only malformed pattern
\* is one holding an unbalanced "(".
ValidRegex(p) == \A j \in 1..Len(p) : p[j] # "("

\* Does pattern p match text t at position i ("." is a wildcard in regex mode).
MatchAt(t, i, p, wild) ==
    /\ i + Len(p) - 1 <= Len(t)
    /\ \A j \in 1..Len(p) : (wild /\ p[j] = ".") \/ p[j] = t[i + j - 1]

\* Left-to-right replacement of all non-overlapping occurrences, from index i.
\* An empty pattern matches before every character and at the end.
RECURSIVE SubFrom(_, _, _, _, _)
SubFrom(t, i, p, r, wild) ==
    IF i > Len(t) THEN (IF p = <<>> THEN r ELSE <<>>)
    ELSE IF p = <<>> THEN r \o <<t[i]>> \o SubFrom(t, i + 1, p, r, wild)
    ELSE IF MatchAt(t, i, p, wild) THEN r \o SubFrom(t, i + Len(p), p, r, wild)
    ELSE <<t[i]>> \o SubFrom(t, i + 1, p, r, wild)

\* text.replace(pattern, replace)
StrReplace(text, pattern, replace) == Ok(SubFrom(text, 1, pattern, replace, FALSE))

\* re.sub(pattern, replace, text): raises re.error on a malformed pattern.
ReSub(pattern, replace, text) ==
    IF ValidRegex(pattern) THEN Ok(SubFrom(text, 1, pattern, replace, TRUE))
    ELSE Raise("re.error")

\* One iteration of the loop of _apply_rules.
ApplyRule(text, rule) ==
    IF RuleIsRegex(rule) THEN ReSub(rule.pattern, rule.replace, text)
    ELSE StrReplace(text, rule.pattern, rule.replace)

\* A variant of the loop that applies the rules from the last to the first.
RECURSIVE ApplyRulesReversed(_, _, _)
ApplyRulesReversed(text, rules, i) ==
    IF i > Len(rules) THEN Ok(text)
    ELSE LET rest == ApplyRulesReversed(text, rules, i + 1)
         IN  IF rest.exc # "none" THEN rest ELSE ApplyRule(rest.val, rules[i])

RECURSIVE ApplyRulesLoop(_, _, _)
ApplyRulesLoop(text, rules, i) ==
    IF i > Len(rules) THEN Ok(text)
    ELSE LET r == ApplyRule(text, rules[i])
         IN  IF r.exc # "none" THEN r ELSE ApplyRulesLoop(r.val, rules, i + 1)

_apply_rules(text, rules) == ApplyRulesLoop(text, rules, 1)

\* ----------------------------------------------------------- Python values
\* A dict field: absent, a str, or another object (whose str() is s).
NoField == [ty |-> "absent", s |-> <<>>]

Str(s) == [ty |-> "str", s |-> s]

Obj(s) == [ty |-> "obj", s |-> s]

\* d.get(field, "")
GetOrEmpty(v) == IF v.ty = "absent" THEN Str(<<>>) ELSE v

\* str(v)
PyStr(v) == v.s

\* ------------------------------------------------------------ object graph
\* heap.msgs   : message dicts      (1 = the caller's, 2 = its deep copy)
\* heap.extras : message["extra"]   (1 = the caller's, 2 = its copy, 3 = the {}
\*               that setdefault creates)
\* heap.nests  : the nested dict action["env"] of each action (field "k")
\* An action dict is a value [command, tag, env]; env is the address of its
\* nested dict, 0 when the action has no such field.
CallerMsg == 1

NoExtra == [live |-> FALSE, hasActions |-> FALSE, actions |-> <<>>]

NoMsg == [live |-> FALSE, content |-> <<>>, extra |-> 0]

ActionValue(h, a) ==
    [command |-> a.command, tag |-> a.tag, hasEnv |-> a.env # 0,
     env |-> IF a.env = 0 THEN <<>> ELSE h.nests[a.env]]

ExtraValue(h, e) ==
    [hasActions |-> h.extras[e].hasActions,
     actions |-> [i \in 1..Len(h.extras[e].actions) |->
                     ActionValue(h, h.extras[e].actions[i])]]

\* The value of a message: what == compares in Python.
MsgValue(h, m) ==
    [content |-> h.msgs[m].content, hasExtra |-> h.msgs[m].extra # 0,
     extra |-> IF h.msgs[m].extra = 0 THEN [hasActions |-> FALSE, actions |-> <<>>]
               ELSE ExtraValue(h, h.msgs[m].extra)]

\* A variant that does not copy: msg is the caller's own message.
NoCopyMessage(h, m) == [ref |-> m, h |-> h]

\* deepcopy(message): a fresh message dict, a fresh extra dict, a fresh list of
\* fresh action dicts, each with a fresh nested dict.
DeepCopyMessage(h, m) ==
    LET src == h.msgs[m]
        acts == IF src.extra = 0 THEN <<>> ELSE h.extras[src.extra].actions
        copied == [i \in 1..Len(acts) |->
                     [acts[i] EXCEPT !.env = IF acts[i].env = 0 THEN 0
                                             ELSE acts[i].env + MaxActions]]
    IN  [ref |-> 2,
         h |-> [msgs |-> [h.msgs EXCEPT ![2] =
                            [live |-> TRUE, content |-> src.content,
                             extra |-> IF src.extra = 0 THEN 0 ELSE 2]],
                extras |-> IF src.extra = 0 THEN h.extras
                           ELSE [h.extras EXCEPT ![2] =
                                   [live |-> TRUE,
                                    hasActions |-> h.extras[src.extra].hasActions,
                                    actions |-> copied]],
                nests |-> [j \in DOMAIN h.nests |->
                             IF j > MaxActions /\ (\E i \in 1..Len(acts) : acts[i].env = j - MaxActions)
                             THEN h.nests[j - MaxActions] ELSE h.nests[j]]]]

\* msg.get("extra", {}).get("actions", [])
GetActions(h, m) ==
    IF h.msgs[m].extra = 0 THEN <<>>
    ELSE IF h.extras[h.msgs[m].extra].hasActions THEN h.extras[h.msgs[m].extra].actions
    ELSE <<>>

\* msg.setdefault("extra", {})["actions"] = rewritten_actions
SetActions(h, m, ra) ==
    IF h.msgs[m].extra = 0
    THEN [h EXCEPT !.msgs[m].extra = 3,
                   !.extras[3] = [live |-> TRUE, hasActions |-> TRUE, actions |-> ra]]
    ELSE [h EXCEPT !.extras[h.msgs[m].extra].hasActions = TRUE,
                   !.extras[h.msgs[m].extra].actions = ra]

\* ------------------------------------------------------ transform composer
\* _build_action_transform / _build_output_transform: None for None or [].
HasTransform(rs) == rs # <<>>

\* The action _transform: dict(action), then command := rules applied to
\* str(get("command", "")).
RuleActionTransform(action, rs) ==
    LET r == _apply_rules(PyStr(GetOrEmpty(action.command)), rs)
    IN  IF r.exc # "none" THEN r ELSE Ok([action EXCEPT !.command = Str(r.val)])

\* The output _transform.
RuleOutputTransform(output, rs) ==
    LET r == _apply_rules(PyStr(GetOrEmpty(output.output)), rs)
    IN  IF r.exc # "none" THEN r ELSE Ok([output EXCEPT !.output = Str(r.val)])

\* dict(output): a TypeError for an object that is no mapping.
DictOf(o) == IF o.kind = "dict" THEN Ok(o) ELSE Raise("TypeError")

\* ---------------------------------------------- caller-supplied callbacks
\* What a transform_action callback may do with (payload, meta):
\*   keep    - return the payload it was given
\*   rewrite - return a new dict whose command has "a" appended
\*   mutate  - set payload["tag"], payload["env"]["k"] and
\*             meta["message"]["content"] in place, return the payload
ActionCbBehaviours == {"keep", "rewrite", "mutate"}

ActionCbReturn(beh, p) ==
    CASE beh = "keep" -> p
      [] beh = "rewrite" -> [p EXCEPT !.command = Str(PyStr(GetOrEmpty(p.command)) \o <<"a">>)]
      [] beh = "mutate" -> [p EXCEPT !.tag = Str(<<"m">>)]

ActionCbHeap(beh, p, m, h) ==
    IF beh # "mutate" THEN h
    ELSE [h EXCEPT !.msgs[m].content = <<"m">>,
                   !.nests = IF p.env = 0 THEN h.nests
                             ELSE [h.nests EXCEPT ![p.env] = <<"m">>]]

\* What a transform_output callback may do: keep, or return a new dict whose
\* output has "a" appended.
OutputCbBehaviours == {"keep", "rewrite"}

OutputCbReturn(beh, p) ==
    IF beh = "keep" THEN p
    ELSE [p EXCEPT !.output = Str(PyStr(GetOrEmpty(p.output)) \o <<"a">>)]

\* ------------------------------------------------------------ collaborators
\* What a delegate (agent.env.execute, format_observation_messages,
\* add_messages, the original execute) may raise: type and content.
DelegateErrors == {"RuntimeError: boom", "StopIteration: exhausted"}

OutDict(out) == [kind |-> "dict", output |-> out, returncode |-> Obj(<<"0">>)]

\* An object that is no mapping (None).
NotAMapping == [kind |-> "none", output |-> NoField, returncode |-> NoField]

\* What agent.env.execute may return: a mapping with output, a mapping
\* without it, or no mapping at all.
EnvOutputs == {OutDict(Str(<<"a">>)), OutDict(NoField), NotAMapping}

\* agent.model.format_observation_messages: one observation per output.
ObservationMessages(m, outs) ==
    [i \in 1..Len(outs) |-> [role |-> "user", content |-> outs[i].output]]

\* agent.add_messages(*messages): returns what it appended.
AddMessagesResult(obs) == [ret |-> "add_messages", messages |-> obs]

NoResult == [ret |-> "none", messages |-> <<>>]

\* ------------------------------------------------------- what the caller sees
Pending == [kind |-> "pending", exc |-> "none", val |-> NoResult]

\* yield aspectlib.Return(result)
Returned(r) == [kind |-> "returned", exc |-> "none", val |-> r]

\* No try/except stands around any call of the advice, so an exception leaves
\* it as it was raised; but the advice is a generator (it yields), and Python
\* turns a StopIteration that leaves a generator into a RuntimeError.
Propagated(e) ==
    [kind |-> "raised",
     exc |-> IF e = "StopIteration: exhausted"
             THEN "RuntimeError: generator raised StopIteration" ELSE e,
     val |-> NoResult]

VARIABLES
    layer,              \* "agent", "env" or "rules": which code runs
    cfg,                \* install_benchmark_bash_io_aspect's keyword arguments
    heap,               \* the object graph reachable from the caller's message
    orig,               \* value of the caller's message when the call was made
    msg,                \* address of msg (0 before the copy)
    actions, rewritten_actions, outputs, rewritten_outputs,
    observation_messages,
    pc,
    outcome,            \* what the caller of the woven method observes
    envCalls,           \* calls received by agent.env.execute
    actionCbCalls,      \* calls received by transform_action
    outputCbCalls,      \* calls received by transform_output
    fmtCalls,           \* calls received by format_observation_messages
    addCalls,           \* calls received by add_messages
    thrown,             \* exceptions raised by the delegates
    ecfg,               \* install_benchmark_env_bash_io_aspect's keyword arguments
    call,               \* the intercepted call of execute: args after env, kwargs
    updated_action,
    proceedCalls,       \* the aspectlib.Proceed(...) calls: args after env, kwargs
    origCalls,          \* calls that reached the body of the original execute
    text, rules, result \* inputs and result of a bare _apply_rules call

agentVars == <<cfg, heap, orig, msg, actions, rewritten_actions, outputs,
               rewritten_outputs, observation_messages, envCalls, actionCbCalls,
               outputCbCalls, fmtCalls, addCalls>>

envVars == <<ecfg, call, updated_action, proceedCalls, origCalls>>

\* what the action layer leaves alone
otherVars == <<envVars, text, rules, result>>

\* ------------------------------------------------------------ action layer
\* A variant that calls the callback first and applies the rules to what it
\* returns.
ComposeActionCallbackFirst(action, beh) ==
    LET c == IF cfg.transform_action THEN ActionCbReturn(beh, action) ELSE action
        calls == IF cfg.transform_action THEN <<[arg |-> action, ret |-> c]>> ELSE <<>>
        r1 == IF HasTransform(cfg.action_replacements)
              THEN RuleActionTransform(c, cfg.action_replacements)
              ELSE Ok(c)
    IN  IF r1.exc # "none" THEN [exc |-> r1.exc, val |-> action, cbCalls |-> <<>>]
        ELSE [exc |-> "none", val |-> r1.val, cbCalls |-> calls]

\* rule-based transform, then the callback (lines 109-112)
ComposeAction(action, beh) ==
    LET r1 == IF HasTransform(cfg.action_replacements)
              THEN RuleActionTransform(action, cfg.action_replacements)
              ELSE Ok(action)
    IN  IF r1.exc # "none" THEN [exc |-> r1.exc, val |-> action, cbCalls |-> <<>>]
        ELSE IF cfg.transform_action
        THEN [exc |-> "none", val |-> ActionCbReturn(beh, r1.val),
              cbCalls |-> <<[arg |-> r1.val, ret |-> ActionCbReturn(beh, r1.val)]>>]
        ELSE [exc |-> "none", val |-> r1.val, cbCalls |-> <<>>]

\* rule-based transform, then the callback (lines 121-124)
ComposeOutput(output, beh) ==
    LET r1 == IF HasTransform(cfg.output_replacements)
              THEN RuleOutputTransform(output, cfg.output_replacements)
              ELSE Ok(output)
    IN  IF r1.exc # "none" THEN [exc |-> r1.exc, val |-> output, cbCalls |-> <<>>]
        ELSE IF cfg.transform_output
        THEN [exc |-> "none", val |-> OutputCbReturn(beh, r1.val),
              cbCalls |-> <<[arg |-> r1.val, ret |-> OutputCbReturn(beh, r1.val)]>>]
        ELSE [exc |-> "none", val |-> r1.val, cbCalls |-> <<>>]

\* A variant that executes the rewritten actions from the last to the first.
NextToExecuteReversed == rewritten_actions[Len(rewritten_actions) - Len(outputs)]

\* The action the list comprehension of line 116 executes next.
NextToExecute == rewritten_actions[Len(outputs) + 1]

\* install_benchmark_bash_io_aspect, lines 85-133 (aspectlib being importable):
\* builds the two rule transforms and weaves the advice; it looks at no pattern.
AgentInstall ==
    /\ layer = "agent" /\ pc = "install"
    /\ pc' = "start"
    /\ UNCHANGED <<otherVars, layer, cfg, heap, orig, msg, actions, rewritten_actions, outputs,
                   rewritten_outputs, observation_messages, outcome, envCalls,
                   actionCbCalls, outputCbCalls, fmtCalls, addCalls, thrown>>

\* lines 96-104
Enter ==
    /\ layer = "agent" /\ pc = "start"
    /\ LET c == DeepCopyMessage(heap, CallerMsg)
       IN  /\ heap' = c.h
           /\ msg' = c.ref
           /\ actions' = GetActions(c.h, c.ref)
    /\ pc' = "rewrite_actions"
    /\ UNCHANGED <<otherVars, layer, cfg, orig, rewritten_actions, outputs, rewritten_outputs,
                   observation_messages, outcome, envCalls, actionCbCalls,
                   outputCbCalls, fmtCalls, addCalls, thrown>>

\* one iteration of the loop of lines 106-113
RewriteAction ==
    /\ layer = "agent" /\ pc = "rewrite_actions"
    /\ Len(rewritten_actions) < Len(actions)
    /\ \E beh \in IF cfg.transform_action THEN ActionCbBehaviours ELSE {"keep"} :
         LET r == ComposeAction(actions[Len(rewritten_actions) + 1], beh)
         IN  IF r.exc # "none"
             THEN /\ pc' = "raised"
                  /\ outcome' = Propagated(r.exc)
                  /\ UNCHANGED <<heap, rewritten_actions, actionCbCalls>>
             ELSE /\ rewritten_actions' = Append(rewritten_actions, r.val)
                  /\ actionCbCalls' = actionCbCalls \o r.cbCalls
                  /\ heap' = IF r.cbCalls = <<>> THEN heap
                             ELSE ActionCbHeap(beh, r.cbCalls[1].arg, msg, heap)
                  /\ UNCHANGED <<pc, outcome>>
    /\ UNCHANGED <<otherVars, layer, cfg, orig, msg, actions, outputs, rewritten_outputs,
                   observation_messages, envCalls, outputCbCalls, fmtCalls,
                   addCalls, thrown>>

\* line 115
WriteBack ==
    /\ layer = "agent" /\ pc = "rewrite_actions"
    /\ Len(rewritten_actions) = Len(actions)
    /\ heap' = SetActions(heap, msg, rewritten_actions)
    /\ pc' = "execute"
    /\ UNCHANGED <<otherVars, layer, cfg, orig, msg, actions, rewritten_actions, outputs,
                   rewritten_outputs, observation_messages, outcome, envCalls,
                   actionCbCalls, outputCbCalls, fmtCalls, addCalls, thrown>>

\* one element of the list comprehension of line 116
ExecuteAction ==
    /\ layer = "agent" /\ pc = "execute"
    /\ Len(outputs) < Len(rewritten_actions)
    /\ \/ \E o \in EnvOutputs :
            /\ envCalls' = Append(envCalls, [action |-> NextToExecute,
                                             seen |-> ActionValue(heap, NextToExecute),
                                             exc |-> "none", result |-> o])
            /\ outputs' = Append(outputs, o)
            /\ UNCHANGED <<pc, outcome, thrown>>
       \/ \E e \in DelegateErrors :
            /\ envCalls' = Append(envCalls, [action |-> NextToExecute,
                                             seen |-> ActionValue(heap, NextToExecute),
                                             exc |-> e, result |-> NotAMapping])
            /\ thrown' = Append(thrown, [by |-> "env.execute", exc |-> e])
            /\ pc' = "raised"
            /\ outcome' = Propagated(e)
            /\ UNCHANGED outputs
    /\ UNCHANGED <<otherVars, layer, cfg, heap, orig, msg, actions, rewritten_actions,
                   rewritten_outputs, observation_messages, actionCbCalls,
                   outputCbCalls, fmtCalls, addCalls>>

\* one iteration of the loop of lines 118-125
RewriteOutput ==
    /\ layer = "agent" /\ pc = "execute"
    /\ Len(outputs) = Len(rewritten_actions)
    /\ Len(rewritten_outputs) < Len(outputs)
    /\ \E beh \in IF cfg.transform_output THEN OutputCbBehaviours ELSE {"keep"} :
         LET d == DictOf(outputs[Len(rewritten_outputs) + 1])
             r == IF d.exc # "none" THEN [exc |-> d.exc, val |-> NotAMapping, cbCalls |-> <<>>]
                  ELSE ComposeOutput(d.val, beh)
         IN  IF r.exc # "none"
             THEN /\ pc' = "raised"
                  /\ outcome' = Propagated(r.exc)
                  /\ UNCHANGED <<rewritten_outputs, outputCbCalls>>
             ELSE /\ rewritten_outputs' = Append(rewritten_outputs, r.val)
                  /\ outputCbCalls' = outputCbCalls \o r.cbCalls
                  /\ UNCHANGED <<pc, outcome>>
    /\ UNCHANGED <<otherVars, layer, cfg, heap, orig, msg, actions, rewritten_actions, outputs,
                   observation_messages, envCalls, actionCbCalls, fmtCalls,
                   addCalls, thrown>>

\* lines 127-129
FormatObservation ==
    /\ layer = "agent" /\ pc = "execute"
    /\ Len(outputs) = Len(rewritten_actions)
    /\ Len(rewritten_outputs) = Len(outputs)
    /\ fmtCalls' = Append(fmtCalls, [message |-> MsgValue(heap, msg),
                                     outputs |-> rewritten_outputs])
    /\ \/ /\ observation_messages' = ObservationMessages(MsgValue(heap, msg), rewritten_outputs)
          /\ pc' = "add"
          /\ UNCHANGED <<outcome, thrown>>
       \/ \E e \in DelegateErrors :
            /\ thrown' = Append(thrown, [by |-> "format_observation_messages", exc |-> e])
            /\ pc' = "raised"
            /\ outcome' = Propagated(e)
            /\ UNCHANGED observation_messages
    /\ UNCHANGED <<otherVars, layer, cfg, heap, orig, msg, actions, rewritten_actions, outputs,
                   rewritten_outputs, envCalls, actionCbCalls, outputCbCalls, addCalls>>

\* lines 130-131
AddMessages ==
    /\ layer = "agent" /\ pc = "add"
    /\ addCalls' = Append(addCalls, [messages |-> observation_messages,
                                     ret |-> AddMessagesResult(observation_messages)])
    /\ \/ /\ pc' = "returned"
          /\ outcome' = Returned(AddMessagesResult(observation_messages))
          /\ UNCHANGED thrown
       \/ \E e \in DelegateErrors :
            /\ thrown' = Append(thrown, [by |-> "add_messages", exc |-> e])
            /\ pc' = "raised"
            /\ outcome' = Propagated(e)
    /\ UNCHANGED <<otherVars, layer, cfg, heap, orig, msg, actions, rewritten_actions, outputs,
                   rewritten_outputs, observation_messages, envCalls, actionCbCalls,
                   outputCbCalls, fmtCalls>>

\* ------------------------------------------------------ environment layer

\* The action argument of execute: a dict, a bare str, another object, or (as a
\* keyword argument only) absent.
DictAction(cmd, cwd) == [kind |-> "dict", command |-> cmd, cwd |-> cwd, text |-> <<>>]

StrAction(t) == [kind |-> "str", command |-> NoField, cwd |-> NoField, text |-> t]

ObjAction(t) == [kind |-> "obj", command |-> NoField, cwd |-> NoField, text |-> t]

AbsentAction == [kind |-> "absent", command |-> NoField, cwd |-> NoField, text |-> <<>>]

\* lines 53-62: action, rest and call_kwargs from (*args, **kwargs)
ActionOf(c) ==
    IF Len(c.args) >= 1 THEN c.args[1]
    ELSE IF c.kwargs.action.kind = "absent" THEN DictAction(NoField, NoField)
    ELSE c.kwargs.action

RestOf(c) == IF Len(c.args) >= 1 THEN Tail(c.args) ELSE <<>>

CallKwargsOf(c) == c.kwargs

\* dict(action): a dict for a dict; a ValueError for a str, a TypeError for
\* another object that is no mapping.
DictOfAction(action) ==
    IF action.kind = "dict" THEN Ok(action)
    ELSE IF action.kind = "str" THEN Raise("ValueError")
    ELSE Raise("TypeError")

\* A variant without the isinstance test.
UpdatedActionNoCheck(action) == DictOfAction(action)

\* line 64: dict(action) if isinstance(action, dict) else {"command": str(action)}
UpdatedAction(action) ==
    IF action.kind = "dict" THEN DictOfAction(action)
    ELSE Ok(DictAction(Str(action.text), NoField))

\* line 65
RewriteCommand(ua, rs) ==
    LET r == _apply_rules(PyStr(GetOrEmpty(ua.command)), rs)
    IN  IF r.exc # "none" THEN r ELSE Ok([ua EXCEPT !.command = Str(r.val)])

\* lines 64-65
RewrittenAction(action, rs) ==
    LET u == UpdatedAction(action)
    IN  IF u.exc # "none" THEN u ELSE RewriteCommand(u.val, rs)

\* Binding Proceed's arguments to execute(self, action, ...): an action given
\* both positionally and by keyword is a TypeError raised by the call itself.
BindOriginal(p) ==
    IF p.kwargs.action.kind # "absent"
    THEN Raise("TypeError: execute() got multiple values for argument 'action'")
    ELSE Ok(p)

\* lines 68-70
RewriteResult(res, rs) ==
    IF res.kind = "dict" /\ res.output.ty # "absent"
    THEN LET r == _apply_rules(PyStr(GetOrEmpty(res.output)), rs)
         IN  IF r.exc # "none" THEN r ELSE Ok([res EXCEPT !.output = Str(r.val)])
    ELSE Ok(res)

\* install_benchmark_env_bash_io_aspect, lines 42-73 (aspectlib being
\* importable): keeps the two rule lists and weaves the advice; it looks at no
\* pattern.
EnvInstall ==
    /\ layer = "env" /\ pc = "install"
    /\ pc' = "start"
    /\ UNCHANGED <<layer, agentVars, outcome, thrown, envVars, text, rules, result>>

\* lines 53-65
EnvEnter ==
    /\ layer = "env" /\ pc = "start"
    /\ LET r == RewrittenAction(ActionOf(call), ecfg.command_replacements)
       IN  IF r.exc # "none"
           THEN /\ pc' = "raised"
                /\ outcome' = Propagated(r.exc)
                /\ UNCHANGED updated_action
           ELSE /\ updated_action' = r.val
                /\ pc' = "proceed"
                /\ UNCHANGED outcome
    /\ UNCHANGED <<layer, agentVars, thrown, ecfg, call, proceedCalls, origCalls,
                   text, rules, result>>

\* line 67: result = yield aspectlib.Proceed(env, updated_action, *rest, **call_kwargs)
Proceed ==
    /\ layer = "env" /\ pc = "proceed"
    /\ LET p == [args |-> <<updated_action>> \o RestOf(call), kwargs |-> CallKwargsOf(call)]
           b == BindOriginal(p)
       IN  /\ proceedCalls' = Append(proceedCalls, p)
           /\ IF b.exc # "none"
              THEN /\ thrown' = Append(thrown, [by |-> "execute", exc |-> b.exc])
                   /\ pc' = "raised"
                   /\ outcome' = Propagated(b.exc)
                   /\ UNCHANGED <<origCalls, result>>
              ELSE /\ origCalls' = Append(origCalls, p)
                   /\ \/ \E o \in EnvOutputs :
                           /\ result' = o
                           /\ pc' = "post"
                           /\ UNCHANGED <<outcome, thrown>>
                      \/ \E e \in DelegateErrors :
                           /\ thrown' = Append(thrown, [by |-> "execute", exc |-> e])
                           /\ pc' = "raised"
                           /\ outcome' = Propagated(e)
                           /\ UNCHANGED result
    /\ UNCHANGED <<layer, agentVars, ecfg, call, updated_action, text, rules>>

\* lines 68-71
PostProcess ==
    /\ layer = "env" /\ pc = "post"
    /\ LET r == RewriteResult(result, ecfg.output_replacements)
       IN  IF r.exc # "none"
           THEN /\ pc' = "raised"
                /\ outcome' = Propagated(r.exc)
           ELSE /\ pc' = "returned"
                /\ outcome' = Returned(r.val)
    /\ UNCHANGED <<layer, agentVars, thrown, envVars, text, rules, result>>

\* ------------------------------------------------------------ installation
Lit(p, r) == [pattern |-> p, replace |-> r, regex |-> "false"]

BadRegex == [pattern |-> <<"(">>, replace |-> <<>>, regex |-> "unset"]

\* Rule lists an installer may be given (None and [] are both <<>>).
RuleConfigs ==
    { <<>>,
      <<Lit(<<"a">>, <<"b">>), Lit(<<"b">>, <<"c">>)>>,
      <<BadRegex>> }

\* The i-th action of a message: a dict with a command and a nested dict, or a
\* dict with neither.
ActionDicts(i) ==
    { [command |-> Str(<<"a">>), tag |-> Str(<<"t">>), env |-> i],
      [command |-> NoField, tag |-> Str(<<"t">>), env |-> 0] }

\* Messages a caller may hand to execute_actions: without extra, with an extra
\* that has no actions, or with up to MaxActions actions.
ActionLists ==
    UNION {{f \in [1..k -> UNION {ActionDicts(i) : i \in 1..k}] :
               \A i \in 1..k : f[i] \in ActionDicts(i)} : k \in 0..MaxActions}

InitialHeaps ==
    LET nests0 == [j \in 1..(2 * MaxActions) |-> IF j <= MaxActions THEN <<"k">> ELSE <<>>]
        base(e, x) == [msgs |-> [m \in 1..2 |-> IF m = CallerMsg
                                    THEN [live |-> TRUE, content |-> <<"q">>, extra |-> e]
                                    ELSE NoMsg],
                       extras |-> [j \in 1..3 |-> IF j = 1 THEN x ELSE NoExtra],
                       nests |-> nests0]
    IN  {base(0, NoExtra), base(1, [live |-> TRUE, hasActions |-> FALSE, actions |-> <<>>])}
        \cup {base(1, [live |-> TRUE, hasActions |-> TRUE, actions |-> as]) : as \in ActionLists}

EnvActions ==
    {DictAction(Str(<<"a">>), Str(<<"d">>)), DictAction(Obj(<<"7">>), NoField),
     DictAction(NoField, Str(<<"d">>)), StrAction(<<"a">>), ObjAction(<<"N", "o", "n", "e">>)}

Kw(a, t) == [action |-> a, timeout |-> t]

\* Calls of the woven execute: action positional (with or without a further
\* positional argument), action by keyword, or no action at all.
EnvCallsSet ==
    {[args |-> <<a>> \o r, kwargs |-> Kw(AbsentAction, t)] :
        a \in EnvActions, r \in {<<>>, <<"cwd">>}, t \in {NoField, Obj(<<"5">>)}}
    \cup {[args |-> <<>>, kwargs |-> Kw(a, t)] :
        a \in EnvActions \cup {AbsentAction}, t \in {NoField, Obj(<<"5">>)}}

IdleAgent ==
    /\ cfg = [action_replacements |-> <<>>, output_replacements |-> <<>>,
              transform_action |-> FALSE, transform_output |-> FALSE]
    /\ heap = CHOOSE h \in InitialHeaps : h.msgs[CallerMsg].extra = 0
    /\ orig = MsgValue(heap, CallerMsg)

IdleEnv ==
    /\ ecfg = [command_replacements |-> <<>>, output_replacements |-> <<>>]
    /\ call = [args |-> <<>>, kwargs |-> Kw(AbsentAction, NoField)]

IdleRules == text = <<>> /\ rules = <<>>

InitCommon ==
    /\ msg = 0
    /\ actions = <<>> /\ rewritten_actions = <<>>
    /\ outputs = <<>> /\ rewritten_outputs = <<>>
    /\ observation_messages = <<>>
    /\ pc = "install"
    /\ outcome = Pending
    /\ envCalls = <<>> /\ actionCbCalls = <<>> /\ outputCbCalls = <<>>
    /\ fmtCalls = <<>> /\ addCalls = <<>> /\ thrown = <<>>
    /\ updated_action = AbsentAction
    /\ proceedCalls = <<>> /\ origCalls = <<>>
    /\ result = NotAMapping

\* install_benchmark_bash_io_aspect(...) followed by a call of execute_actions
AgentInit ==
    /\ layer = "agent"
    /\ cfg \in [action_replacements : RuleConfigs, output_replacements : RuleConfigs,
                transform_action : BOOLEAN, transform_output : BOOLEAN]
    /\ heap \in InitialHeaps
    /\ orig = MsgValue(heap, CallerMsg)
    /\ IdleEnv /\ IdleRules /\ InitCommon

\* install_benchmark_env_bash_io_aspect(...) followed by a call of execute
EnvInit ==
    /\ layer = "env"
    /\ ecfg \in [command_replacements : RuleConfigs, output_replacements : RuleConfigs]
    /\ call \in EnvCallsSet
    /\ IdleAgent /\ IdleRules /\ InitCommon

vars == <<layer, agentVars, pc, outcome, thrown, envVars, text, rules, result>>

Init == AgentInit \/ EnvInit

Next ==
    \/ AgentInstall
    \/ Enter
    \/ RewriteAction
    \/ WriteBack
    \/ ExecuteAction
    \/ RewriteOutput
    \/ FormatObservation
    \/ AddMessages
    \/ EnvInstall
    \/ EnvEnter
    \/ Proceed
    \/ PostProcess

Spec == Init /\ [][Next]_vars

\* -------------------------------------------------- the rule engine alone
LiteralRules ==
    {Lit(p, r) : p \in SeqsUpTo(Chars, 1), r \in SeqsUpTo(Chars, 1)}
    \cup {Lit(<<"a", "a">>, <<"b">>)}

RegexRules ==
    { [pattern |-> <<".">>, replace |-> <<"c">>, regex |-> "true"],
      [pattern |-> <<"a">>, replace |-> <<"b">>, regex |-> "unset"],
      BadRegex }

RuleInit ==
    /\ layer = "rules"
    /\ text \in SeqsUpTo(Chars, MaxLen)
    /\ rules \in SeqsUpTo(LiteralRules \cup RegexRules, MaxRules)
    /\ IdleAgent /\ IdleEnv /\ InitCommon

ApplyRulesCall ==
    /\ layer = "rules" /\ pc = "install"
    /\ result' = _apply_rules(text, rules)
    /\ pc' = "returned"
    /\ UNCHANGED <<layer, agentVars, outcome, thrown, envVars, text, rules>>

RuleNext == ApplyRulesCall

RuleSpec == RuleInit /\ [][RuleNext]_vars

\* ================================================================== claims
\* Number of actions in the caller's message.
NumActions == Len(orig.extra.actions)

NoRulesNoCallbacks ==
    /\ cfg.action_replacements = <<>> /\ cfg.output_replacements = <<>>
    /\ ~cfg.transform_action /\ ~cfg.transform_output

\* The rewritten form of the i-th action: what the callback returned for it,
\* else what the rules make of it, else the action itself.
RewrittenActionForm(i) ==
    IF cfg.transform_action THEN actionCbCalls[i].ret
    ELSE IF cfg.action_replacements # <<>>
    THEN RuleActionTransform(actions[i], cfg.action_replacements).val
    ELSE actions[i]

\* The rewritten form of the output of the i-th execution.
RewrittenOutputForm(i) ==
    IF cfg.transform_output THEN outputCbCalls[i].ret
    ELSE IF cfg.output_replacements # <<>>
    THEN RuleOutputTransform(envCalls[i].result, cfg.output_replacements).val
    ELSE envCalls[i].result

\* C1: one intercepted execute_actions call executes the n actions of the
\* message once each, in submission order, the i-th execution receiving the
\* rewritten form of the i-th action; no execution starts before every action
\* is rewritten; and format_observation_messages receives n outputs, the i-th
\* being the rewritten output of the i-th execution, whatever the callbacks
\* return.
C1_ActionLayerOrdering ==
    layer = "agent" =>
      /\ Len(actions) \in {0, NumActions}
      /\ Len(envCalls) <= NumActions
      /\ envCalls # <<>> => Len(rewritten_actions) = NumActions
      /\ \A i \in 1..Len(envCalls) : envCalls[i].action = RewrittenActionForm(i)
      /\ Len(fmtCalls) <= 1
      /\ pc \in {"add", "returned"} => Len(fmtCalls) = 1
      /\ \A c \in 1..Len(fmtCalls) :
           /\ Len(envCalls) = NumActions
           /\ Len(fmtCalls[c].outputs) = NumActions
           /\ \A i \in 1..NumActions :
                /\ envCalls[i].exc = "none"
                /\ fmtCalls[c].outputs[i] = RewrittenOutputForm(i)

C1_Witness ==
    /\ layer = "agent" /\ pc = "returned"
    /\ cfg.transform_action /\ cfg.transform_output
    /\ Len(envCalls) >= 2
    /\ envCalls[1].action # envCalls[2].action
    /\ actionCbCalls[1].ret # actionCbCalls[1].arg
    /\ Len(fmtCalls[1].outputs) >= 2
    /\ fmtCalls[1].outputs[1] # fmtCalls[1].outputs[2]

\* C2: for every action and every output, the rule-based transform runs
\* first, the callback is called exactly once with the rule-rewritten payload,
\* and what the callback returns is the payload executed (formatted); with
\* only one of the two configured that one alone is applied, with neither the
\* payload is unchanged.
C2_RuleBeforeCallback ==
    layer = "agent" =>
      /\ Len(actionCbCalls) = (IF cfg.transform_action THEN Len(rewritten_actions) ELSE 0)
      /\ Len(outputCbCalls) = (IF cfg.transform_output THEN Len(rewritten_outputs) ELSE 0)
      /\ \A i \in 1..Len(rewritten_actions) :
           LET ruled == IF cfg.action_replacements # <<>>
                        THEN RuleActionTransform(actions[i], cfg.action_replacements).val
                        ELSE actions[i]
           IN  IF cfg.transform_action
               THEN /\ actionCbCalls[i].arg = ruled
                    /\ rewritten_actions[i] = actionCbCalls[i].ret
               ELSE rewritten_actions[i] = ruled
      /\ \A i \in 1..Len(envCalls) : envCalls[i].action = rewritten_actions[i]
      /\ \A i \in 1..Len(rewritten_outputs) :
           LET ruled == IF cfg.output_replacements # <<>>
                        THEN RuleOutputTransform(outputs[i], cfg.output_replacements).val
                        ELSE outputs[i]
           IN  IF cfg.transform_output
               THEN /\ outputCbCalls[i].arg = ruled
                    /\ rewritten_outputs[i] = outputCbCalls[i].ret
               ELSE rewritten_outputs[i] = ruled
      /\ \A c \in 1..Len(fmtCalls) : fmtCalls[c].outputs = rewritten_outputs

C2_Witness ==
    /\ layer = "agent" /\ pc = "returned"
    /\ cfg.transform_action /\ cfg.action_replacements # <<>>
    /\ cfg.transform_output /\ cfg.output_replacements # <<>>
    /\ Len(envCalls) >= 1
    /\ actionCbCalls[1].arg # actions[1]
    /\ actionCbCalls[1].ret # actionCbCalls[1].arg
    /\ envCalls[1].action = actionCbCalls[1].ret
    /\ outputCbCalls[1].arg # outputs[1]
    /\ outputCbCalls[1].ret # outputCbCalls[1].arg

\* C3: at every point of an intercepted execute_actions call the caller's
\* message, its extra.actions list and every action in it, nested fields
\* included, have the value they had when the call was made, and the caller's
\* message still refers to its own extra dict.
C3_DeepCopyInvariant ==
    layer = "agent" =>
      /\ MsgValue(heap, CallerMsg) = orig
      /\ heap.msgs[CallerMsg].extra \in {0, 1}

C3_Witness ==
    /\ layer = "agent" /\ pc = "returned"
    /\ cfg.action_replacements # <<>>
    /\ heap.msgs[msg].content = <<"m">>
    /\ \E i \in 1..Len(rewritten_actions) :
         /\ rewritten_actions[i].env # 0
         /\ heap.nests[rewritten_actions[i].env] = <<"m">>
         /\ rewritten_actions[i].command # actions[i].command
    /\ MsgValue(heap, msg) # orig
    /\ MsgValue(heap, CallerMsg) = orig

\* C4: with no rules and no callbacks installed, the environment receives each
\* action equal to the caller's, format_observation_messages receives a
\* message equal to the caller's and the environment's outputs, add_messages
\* is called once with the formatted messages, its result is what the caller
\* gets, and the interceptor raises nothing of its own.
C4_PassThrough ==
    (layer = "agent" /\ NoRulesNoCallbacks) =>
      /\ \A i \in 1..Len(envCalls) : envCalls[i].seen = orig.extra.actions[i]
      /\ \A c \in 1..Len(fmtCalls) :
           /\ fmtCalls[c].message = orig
           /\ fmtCalls[c].outputs = [i \in 1..Len(envCalls) |-> envCalls[i].result]
      /\ pc = "returned" =>
           /\ Len(addCalls) = 1
           /\ addCalls[1].messages = observation_messages
           /\ outcome = [kind |-> "returned", exc |-> "none", val |-> addCalls[1].ret]
      /\ pc = "raised" => thrown # <<>>

\* C5: whether the action is given positionally or as the keyword argument
\* action, the original execute is invoked exactly once, with the rewritten
\* action as its action argument exactly once and every other positional and
\* keyword argument unchanged.
C5_EnvDelegation ==
    (layer = "env" /\ proceedCalls # <<>>
       /\ (Len(call.args) >= 1 \/ call.kwargs.action.kind # "absent")) =>
      /\ Len(proceedCalls) = 1
      /\ Len(origCalls) = 1
      /\ proceedCalls[1].args[1] = updated_action
      /\ proceedCalls[1].kwargs.action.kind = "absent"
      /\ Tail(proceedCalls[1].args) = (IF Len(call.args) >= 1 THEN Tail(call.args) ELSE <<>>)
      /\ proceedCalls[1].kwargs.timeout = call.kwargs.timeout

\* C6: an exception raised by agent.env.execute, format_observation_messages,
\* add_messages or the original execute is what the caller observes, same type
\* and content; the call never returns normally after it and no delegate is
\* called after it.
C6_ErrorTransparency ==
    thrown # <<>> =>
      /\ Len(thrown) = 1
      /\ pc = "raised"
      /\ outcome = [kind |-> "raised", exc |-> thrown[1].exc, val |-> NoResult]

\* What holds of the code: every exception of a delegate other than
\* StopIteration reaches the caller as it was raised, and StopIteration reaches
\* it as RuntimeError; the call never returns normally after either.
ErrorsPropagate ==
    thrown # <<>> =>
      /\ Len(thrown) = 1
      /\ pc = "raised"
      /\ outcome.kind = "raised"
      /\ outcome.exc = (IF thrown[1].exc = "StopIteration: exhausted"
                        THEN "RuntimeError: generator raised StopIteration"
                        ELSE thrown[1].exc)

HasBadRule(rs) == \E i \in 1..Len(rs) : RuleIsRegex(rs[i]) /\ ~ValidRegex(rs[i].pattern)

BadRuleInstalled ==
    \/ layer = "agent" /\ (HasBadRule(cfg.action_replacements) \/ HasBadRule(cfg.output_replacements))
    \/ layer = "env" /\ (HasBadRule(ecfg.command_replacements) \/ HasBadRule(ecfg.output_replacements))

\* C7: when an installed regex rule has a malformed pattern the install call
\* itself fails, so the woven method is never entered and no command is executed.
C7_MalformedRulesFailFast ==
    BadRuleInstalled =>
      /\ pc \in {"install", "raised"}
      /\ msg = 0 /\ envCalls = <<>> /\ proceedCalls = <<>> /\ origCalls = <<>>

\* C8: an intercepted execute raises only what a delegate raised or what a
\* malformed rule raises, never on account of the payload's shape; a bare text
\* action reaches the original as {command: rewritten text}; a result that is
\* no mapping or has no output field is returned as it is; a mapping with
\* output is returned as a copy whose output field alone is rewritten.
C8_EnvTolerance ==
    layer = "env" =>
      /\ pc = "raised" => (thrown # <<>> \/ (BadRuleInstalled /\ outcome.exc = "re.error"))
      /\ (proceedCalls # <<>> /\ ActionOf(call).kind = "str") =>
            proceedCalls[1].args[1] =
               DictAction(Str(_apply_rules(ActionOf(call).text, ecfg.command_replacements).val),
                          NoField)
      /\ pc = "returned" =>
           /\ outcome.kind = "returned"
           /\ IF result.kind = "dict" /\ result.output.ty # "absent"
              THEN /\ outcome.val.output =
                        Str(_apply_rules(PyStr(result.output), ecfg.output_replacements).val)
                   /\ outcome.val.kind = result.kind
                   /\ outcome.val.returncode = result.returncode
              ELSE outcome.val = result

C8_Witness ==
    /\ layer = "env" /\ pc = "returned"
    /\ ActionOf(call).kind = "str"
    /\ ecfg.command_replacements # <<>>
    /\ proceedCalls[1].args[1].command = Str(<<"c">>)
    /\ result.kind = "dict" /\ result.output.ty = "absent"
    /\ outcome.val = result

\* rk applied to (... r1 applied to T): the fold from the right end.
RECURSIVE FoldRules(_, _)
FoldRules(t, rs) ==
    IF rs = <<>> THEN Ok(t)
    ELSE LET prev == FoldRules(t, SubSeq(rs, 1, Len(rs) - 1))
         IN  IF prev.exc # "none" THEN prev ELSE ApplyRule(prev.val, rs[Len(rs)])

\* C9: _apply_rules(T, [r1..rk]) is rk applied to (... r1 applied to T);
\* apply(T, []) = T; apply(T, R ++ S) = apply(apply(T, R), S) for every split;
\* a literal rule leaves no occurrence of its pattern when its replacement
\* holds none; and [a->b, b->c] turns "a" into "c".
C9_RuleEngineIsFold ==
    (layer = "rules" /\ pc = "returned") =>
      /\ result = FoldRules(text, rules)
      /\ rules = <<>> => result = Ok(text)
      /\ \A k \in 0..Len(rules) :
           LET first == _apply_rules(text, SubSeq(rules, 1, k))
           IN  IF first.exc # "none" THEN result = first
               ELSE result = _apply_rules(first.val, SubSeq(rules, k + 1, Len(rules)))
      /\ (Len(rules) = 1 /\ ~RuleIsRegex(rules[1]) /\ Len(rules[1].pattern) = 1
            /\ rules[1].pattern # rules[1].replace) =>
           \A j \in 1..Len(result.val) : result.val[j] # rules[1].pattern[1]
      /\ (text = <<"a">> /\ rules = <<Lit(<<"a">>, <<"b">>), Lit(<<"b">>, <<"c">>)>>) =>
           result = Ok(<<"c">>)

C9_Witness ==
    /\ layer = "rules" /\ pc = "returned"
    /\ text = <<"a">>
    /\ rules = <<Lit(<<"a">>, <<"b">>), Lit(<<"b">>, <<"c">>)>>
    /\ result = Ok(<<"c">>)

\* C10: an action without a command field reaches the execution with the
\* fields and values it had, at both layers, and at the action layer an output
\* without an output field reaches format_observation_messages with the
\* fields and values it had (no callback being there to change them).
C10_FieldMissingUntouched ==
    /\ (layer = "agent" /\ ~cfg.transform_action) =>
         \A i \in 1..Len(envCalls) :
            actions[i].command.ty = "absent" => envCalls[i].action = actions[i]
    /\ (layer = "agent" /\ ~cfg.transform_output) =>
         \A c \in 1..Len(fmtCalls) : \A i \in 1..Len(fmtCalls[c].outputs) :
            outputs[i].output.ty = "absent" => fmtCalls[c].outputs[i] = outputs[i]
    /\ layer = "env" =>
         \A i \in 1..Len(origCalls) :
            (ActionOf(call).kind = "dict" /\ ActionOf(call).command.ty = "absent"
               /\ Len(call.args) + (IF call.kwargs.action.kind = "absent" THEN 0 ELSE 1) > 0)
              => origCalls[i].args[1] = ActionOf(call)
====
